---- MODULE Spec2Model ----
(***************************************************************************)
(* Model of the SmarAct MCS wrapper class                                  *)
(* (src/pymodaq_plugins/hardware/smaract/smaract.py).                      *)
(*                                                                         *)
(* Every method of the class is one action: the class is synchronous, a    *)
(* call runs to its return or to the exception it raises before the next   *)
(* call starts.  The vendor library (MCSControl.dll) is the environment:    *)
(* the status codes and output values of its functions are chosen          *)
(* nondeterministically, and it remembers which system indexes are open.   *)
(* In the motion specification the library is an idealized transport: it    *)
(* carries out every motion command it accepts and reports the positions    *)
(* that result.                                                             *)
(***************************************************************************)
EXTENDS Integers, Sequences, FiniteSets

(* ------------------------------ bounds --------------------------------- *)
\* status codes returned by the library are 0..MaxStatus (0 is SA_OK)
MaxStatus == 2
\* positions and displacements are -MaxPos..MaxPos nanometers
MaxPos == 1
\* enumeration outputs are concatenations of at most MaxPieces pieces
MaxPieces == 3

\* ctypes.c_long and ctypes.c_ulong have 32 bits with MCSControl.dll (a
\* Windows library); the model computes with words of LongBits bits, which
\* hold every value of the program and keep 2^LongBits an integer of TLC
LongBits == 16

(* ------------------------ constants of the program --------------------- *)
\* "[0-9]{10}" in the locator pattern
LocatorDigits == 10
\* hold_time of find_reference, relative_move and absolute_move
HoldTime == 60000
\* direction of find_reference
Direction == 0
\* auto_zero of find_reference
AutoZero == 1

\* the caller constructs a first and a second SmarAct object: two objects are
\* what it takes to hold two sessions at once
Objs == {1, 2}
\* the controller has two channels, indexed from 0: two channels are what it
\* takes for a command on one channel to leave another one alone
Positioners == {0, 1}
NumChannels == Cardinality(Positioners)
\* the library has one system index for every object the caller may construct
Handles == 0..(Cardinality(Objs) - 1)
Statuses == 0..MaxStatus
NonZero == Statuses \ {0}
\* the caller passes the channel indexes 0..NumChannels, the last one out of
\* range
ChannelArgs == 0..NumChannels
Positions == (0 - MaxPos)..MaxPos
\* the travel of a positioner of the idealized transport
Travel == Positions

(* ------------------------- ctypes conversions -------------------------- *)
\* ctypes does no overflow checking: a value is reduced to the word
Word == 2^LongBits
\* ctypes.c_ulong(v).value
c_ulong(v) == v % Word
\* ctypes.c_long(v) converted as ctypes.c_ulong(v)
c_long_unsigned(v) == v % Word
\* ctypes.c_long(v).value
c_long(v) == ((v + Word \div 2) % Word) - Word \div 2

(* ------------------------- exceptions and values ----------------------- *)
\* an exception is its message, the raw status codes it records and the
\* message of the exception chained to it ("" when there is none)
NoException == [msg |-> "", codes |-> {}, context |-> ""]
\* raise Exception(msg), outside of any except block: the message is the
\* only argument and no exception is chained
Exception(msg) == [msg |-> msg, codes |-> {}, context |-> ""]

\* the value a call returns: <<>> when it returns nothing, <<v>> otherwise
NoValue == <<>>
\* the attributes of an object whose __init__ has not completed
NoHandle == 0 - 1
NoLocator == <<>>

(* --------------------- get_controller_locator: parsing ------------------ *)
\* the literal prefix of the pattern "usb:id:[0-9]{10}"
Tag == <<"u", "s", "b", ":", "i", "d", ":">>
\* the pattern written "usb:id:.{10}": any ten characters
IsDigit_any(c) == TRUE
IsDigit(c) == c \in {"0", "1", "2", "3", "4", "5", "6", "7", "8", "9"}
LocatorLen == Len(Tag) + LocatorDigits

\* the pattern matches the characters of buf that start at index i
MatchAt(buf, i) ==
    /\ i + LocatorLen - 1 <= Len(buf)
    /\ \A k \in 1..Len(Tag) : buf[i + k - 1] = Tag[k]
    /\ \A k \in 1..LocatorDigits : IsDigit(buf[i + Len(Tag) + k - 1])

\* re.findall scanning from index i: the non-overlapping matches, left to
\* right; after a match the scan resumes behind it
RECURSIVE findall(_, _)
findall(buf, i) ==
    IF i > Len(buf) THEN <<>>
    ELSE IF MatchAt(buf, i)
         THEN <<SubSeq(buf, i, i + LocatorLen - 1)>> \o findall(buf, i + LocatorLen)
         ELSE findall(buf, i + 1)

\* the list controller_locator of get_controller_locator
controller_locator_list(buf) == findall(buf, 1)

\* controller_locator[-1]: the last match
FirstLocator_last(matches) == matches[Len(matches)]

\* what get_controller_locator returns when it does not raise
FirstLocator(matches) == matches[1]

(* ------------------------ enumeration outputs -------------------------- *)
Id1 == <<"3", "1", "1", "8", "1", "6", "7", "2", "3", "3">>
Id2 == <<"9", "9", "9", "9", "9", "9", "9", "9", "9", "9">>
Nine == <<"1", "2", "3", "4", "5", "6", "7", "8", "9">>
Loc1 == Tag \o Id1
Loc2 == Tag \o Id2
Pieces ==
    { Loc1, Loc2, Tag, Nine, <<"7">>, <<" ">>, <<"x">>,
      <<"u", "s", "b", ":", "i", "d">> }

RECURSIVE Concats(_)
Concats(n) ==
    IF n = 0 THEN {<<>>}
    ELSE LET shorter == Concats(n - 1)
         IN shorter \cup {b \o p : b \in shorter, p \in Pieces}

\* the enumeration outputs of the discovery specification
Buffers == Concats(MaxPieces)

\* the enumeration outputs of the main specification
SampleOutputs ==
    { <<" ">>,
      Tag \o Nine,
      Loc1 \o <<" ">> \o Loc2 }

(* ------------------------------- state --------------------------------- *)
VARIABLES
    phase,               \* per object: "unborn", "ready" (__init__ returned) or
                         \* "failed" (__init__ raised: no object exists)
    controller_locator,  \* per object that exists: self.controller_locator
    system_index,        \* per object that exists: self.system_index
    owner,               \* the library: per system index, the object whose
                         \* session it is, 0 when the index is not open
    closes,              \* per object: how often SA_CloseSystem was issued for
                         \* its session: "never", "once" or "again"
    call,                \* the call that has just ended: object, method and
                         \* arguments; NoCall once the caller has taken its result
    trace,               \* the library functions that call invoked, in order
    raised,              \* the exception that call raised, or NoException
    ret,                 \* the value that call returned, or NoValue
    ideal,               \* the library is an idealized transport: it carries
                         \* out every motion command it accepts, exactly
    position,            \* the idealized transport: per channel, the position
                         \* of its positioner in nanometers
    moved                \* the idealized transport: when the caller's
                         \* previous call was a relative move that returned,
                         \* its channel and the position before it plus the
                         \* displacement the caller passed; NoMove otherwise

vars == <<phase, controller_locator, system_index, owner, closes,
          call, trace, raised, ret, ideal, position, moved>>

(* ------------------------- the library (environment) ------------------- *)
\* the system indexes that are open
live == {h \in Handles : owner[h] # 0}

\* the session that object o opened is open
SessionOpen(o) ==
    /\ phase[o] = "ready"
    /\ owner[system_index[o]] = o

\* the status codes the library may return for a command on system index h
\* and channel ch: a closed system index and a channel the controller does
\* not have are rejected
StatusesFor(h, ch) ==
    IF h \in live /\ ch < NumChannels THEN Statuses ELSE NonZero

(* ------------------------------ commands ------------------------------- *)
Cmd(name, args, status, out) ==
    [cmd |-> name, args |-> args, status |-> status, out |-> out]

\* lines 49-53
SA_FindSystems(status, buf) == Cmd("SA_FindSystems", <<>>, status, <<buf>>)

\* lines 78-82: the locator and the synchronous mode
SA_OpenSystem(locator, status, h) ==
    Cmd("SA_OpenSystem", <<locator, "sync">>, status,
        IF status = 0 THEN <<h>> ELSE <<>>)

\* lines 101-104
SA_GetNumberOfChannels(h, status, n) ==
    Cmd("SA_GetNumberOfChannels", <<c_ulong(h)>>, status,
        IF status = 0 THEN <<n>> ELSE <<>>)

\* close_communication closing system index 0 whatever self.system_index
SA_CloseSystem_zero(h, status) ==
    Cmd("SA_CloseSystem", <<c_ulong(0)>>, status, <<>>)

\* lines 116-118
SA_CloseSystem(h, status) ==
    Cmd("SA_CloseSystem", <<c_ulong(h)>>, status, <<>>)

\* lines 139-143
SA_GetPosition_S(h, ch, status, p) ==
    Cmd("SA_GetPosition_S", <<c_ulong(h), c_ulong(ch)>>, status,
        IF status = 0 THEN <<p>> ELSE <<>>)

\* find_reference taking the direction from channel_index
SA_FindReferenceMark_S_by_channel(h, ch, status) ==
    Cmd("SA_FindReferenceMark_S",
        <<c_ulong(h), c_ulong(ch), c_ulong(ch), c_ulong(HoldTime),
          c_ulong(AutoZero)>>,
        status, <<>>)

\* lines 163-176
SA_FindReferenceMark_S(h, ch, status) ==
    Cmd("SA_FindReferenceMark_S",
        <<c_ulong(h), c_ulong(ch), c_ulong(Direction), c_ulong(HoldTime),
          c_ulong(AutoZero)>>,
        status, <<>>)

\* relative_move calling the function of absolute_move
SA_GotoPositionRelative_S_absolute(h, ch, relative_position, status) ==
    Cmd("SA_GotoPositionAbsolute_S",
        <<c_ulong(h), c_ulong(ch), c_long(relative_position),
          c_ulong(HoldTime)>>,
        status, <<>>)

\* lines 197-204
SA_GotoPositionRelative_S(h, ch, relative_position, status) ==
    Cmd("SA_GotoPositionRelative_S",
        <<c_ulong(h), c_ulong(ch), c_long(relative_position),
          c_ulong(HoldTime)>>,
        status, <<>>)

\* absolute_move searching the reference mark instead
SA_GotoPositionAbsolute_S_referencing(h, ch, absolute_position, status) ==
    Cmd("SA_FindReferenceMark_S",
        <<c_ulong(h), c_ulong(ch), c_ulong(Direction), c_ulong(HoldTime),
          c_ulong(AutoZero)>>,
        status, <<>>)

\* lines 223-230
SA_GotoPositionAbsolute_S(h, ch, absolute_position, status) ==
    Cmd("SA_GotoPositionAbsolute_S",
        <<c_ulong(h), c_ulong(ch), c_long(absolute_position),
          c_ulong(HoldTime)>>,
        status, <<>>)

\* lines 246-249
SA_Stop_S(h, ch, status) ==
    Cmd("SA_Stop_S", <<c_ulong(h), c_ulong(ch)>>, status, <<>>)

\* the number of SA_CloseSystem commands in a trace
RECURSIVE CloseCount(_)
CloseCount(tr) ==
    IF tr = <<>> THEN 0
    ELSE (IF Head(tr).cmd = "SA_CloseSystem" THEN 1 ELSE 0) + CloseCount(Tail(tr))

\* the library after it has carried out the commands tr of object o: an
\* accepted SA_OpenSystem opens the index it returns, an accepted
\* SA_CloseSystem closes its index, a rejected command is not carried out
RECURSIVE OwnerAfter(_, _, _)
OwnerAfter(own, o, tr) ==
    IF tr = <<>> THEN own
    ELSE LET c == Head(tr)
             next == IF c.status # 0 THEN own
                     ELSE IF c.cmd = "SA_OpenSystem"
                          THEN [own EXCEPT ![c.out[1]] = o]
                     ELSE IF c.cmd = "SA_CloseSystem"
                          THEN [own EXCEPT ![c.args[1]] = 0]
                     ELSE own
         IN OwnerAfter(next, o, Tail(tr))

\* the idealized transport after it has carried out the commands tr: an
\* accepted relative move adds its displacement to the position of the
\* channel, an accepted absolute move sets it, an accepted search of the
\* reference mark with auto zero makes the position zero
RECURSIVE PositionAfter(_, _)
PositionAfter(pos, tr) ==
    IF tr = <<>> THEN pos
    ELSE LET c == Head(tr)
             next == IF c.status # 0 THEN pos
                     ELSE IF c.cmd = "SA_GotoPositionRelative_S"
                          THEN [pos EXCEPT ![c.args[2]] = @ + c.args[3]]
                     ELSE IF c.cmd = "SA_GotoPositionAbsolute_S"
                          THEN [pos EXCEPT ![c.args[2]] = c.args[3]]
                     ELSE IF c.cmd = "SA_FindReferenceMark_S" /\ c.args[5] = 1
                          THEN [pos EXCEPT ![c.args[2]] = 0]
                     ELSE pos
         IN PositionAfter(next, Tail(tr))

\* the positions the library may report for channel ch: the idealized
\* transport reports the position of the positioner
Readings(ch) == IF ideal THEN {position[ch]} ELSE Positions

\* the history of an object after n more SA_CloseSystem commands
Counted(history, n) ==
    IF n = 0 THEN history
    ELSE IF history = "never" /\ n = 1 THEN "once"
    ELSE "again"

(* --------------------------- shape of a call --------------------------- *)
NoCall ==
    [obj |-> 0, op |-> "", args |-> <<>>, open |-> FALSE, late |-> FALSE,
     before |-> [ch \in Positioners |-> 0]]
\* the caller's previous call was not a relative move that returned
NoMove == [channel |-> 0 - 1, sum |-> 0]

\* a call of method op of object o ends: it invoked the library functions
\* tr, raised exc (or NoException) and returned value (or NoValue).  The
\* call records whether the session of o was open when it began (open) and
\* whether SA_CloseSystem had already been issued for it (late), and the
\* positions of the idealized transport when it began (before)
Finish(o, op, args, tr, exc, value) ==
    /\ call = NoCall
    /\ call' = [obj |-> o, op |-> op, args |-> args,
                open |-> SessionOpen(o), late |-> closes[o] # "never",
                before |-> position]
    /\ trace' = tr
    /\ raised' = exc
    /\ ret' = value
    /\ owner' = OwnerAfter(owner, o, tr)
    /\ closes' = [closes EXCEPT ![o] = Counted(@, CloseCount(tr))]
    /\ position' = IF ideal THEN PositionAfter(position, tr) ELSE position
    /\ UNCHANGED <<ideal, moved>>

(* ----------------------------- __init__ -------------------------------- *)
\* get_controller_locator without "if status != 0"
get_controller_locator_raised_unchecked(status, buf) ==
    IF findall(buf, 1) = <<>> THEN Exception("No controller found")
    ELSE NoException

\* get_controller_locator, lines 55-61: the exception it raises
get_controller_locator_raised(status, buf) ==
    IF status # 0 THEN Exception("SmarAct SA_FindSystems error")
    ELSE IF controller_locator_list(buf) = <<>>
         THEN Exception("No controller found")
         ELSE NoException

\* get_controller_locator returning the enumeration output as it is
get_controller_locator_raw(buf) == buf

\* get_controller_locator, line 63: the value it returns
get_controller_locator(buf) == FirstLocator(controller_locator_list(buf))

\* init_communication without "if status != 0"
init_communication_raised_unchecked(status) == NoException

\* init_communication, lines 84-85: the exception it raises
init_communication_raised(status) ==
    IF status # 0 THEN Exception("SmarAct SA_OpenSystem failed")
    ELSE NoException

\* init_communication returning the initial value of systemIndex
init_communication_zero(systemIndex) == 0

\* init_communication, line 87: the value it returns
init_communication(systemIndex) == systemIndex

\* SmarAct(): discovery, then the opening of the session, with the
\* enumeration output buf.  The library opens an index h that is not open;
\* when it rejects the open there is no index, and h is fixed.
Construct(o, buf) ==
    /\ phase[o] = "unborn"
    /\ \A p \in Objs : p < o => phase[p] # "unborn"
    /\ \E fs \in Statuses :
         LET find == SA_FindSystems(fs, buf)
             found == get_controller_locator_raised(fs, buf)
             locator == get_controller_locator(buf)
         IN  IF found # NoException
             THEN /\ Finish(o, "__init__", <<>>, <<find>>, found, NoValue)
                  /\ phase' = [phase EXCEPT ![o] = "failed"]
                  /\ UNCHANGED <<controller_locator, system_index>>
             ELSE \E os \in Statuses, h \in Handles \ live :
                    LET open == SA_OpenSystem(locator, os, h)
                        opened == init_communication_raised(os)
                    IN  /\ os # 0 => h = CHOOSE x \in Handles \ live : TRUE
                        /\ Finish(o, "__init__", <<>>, <<find, open>>, opened,
                                  NoValue)
                        /\ IF opened # NoException
                           THEN /\ phase' = [phase EXCEPT ![o] = "failed"]
                                /\ UNCHANGED <<controller_locator, system_index>>
                           ELSE /\ phase' = [phase EXCEPT ![o] = "ready"]
                                /\ controller_locator' =
                                     [controller_locator EXCEPT ![o] = locator]
                                /\ system_index' =
                                     [system_index EXCEPT
                                        ![o] = init_communication(h)]

(* ------------------------- close_communication ------------------------- *)
\* close_communication without "if status != 0"
close_communication_silent(status) == NoException

\* lines 120-121: the exception close_communication raises
close_communication(status) ==
    IF status # 0 THEN Exception("SmarAct SA_CloseSystem failed")
    ELSE NoException

\* the caller calls close_communication()
CloseCommunication(o) ==
    /\ phase[o] = "ready"
    /\ LET h == system_index[o]
       IN \E cs \in StatusesFor(h, 0) :
            Finish(o, "close_communication", <<>>, <<SA_CloseSystem(h, cs)>>,
                   close_communication(cs), NoValue)
    /\ UNCHANGED <<phase, controller_locator, system_index>>

(* --------------------- the methods that use the session ---------------- *)
\* a failure branch without "self.close_communication()"
recovery_forgotten(h, cs) == <<>>

\* a failure branch that closes twice
recovery_twice(h, cs) == <<SA_CloseSystem(h, cs), SA_CloseSystem(h, cs)>>

\* a failure branch that closes again when its close is rejected
recovery_retried(h, cs) ==
    IF cs # 0 THEN <<SA_CloseSystem(h, cs), SA_CloseSystem(h, cs)>>
    ELSE <<SA_CloseSystem(h, cs)>>

\* "self.close_communication()" of a failure branch: the commands it issues
recovery(h, cs) == <<SA_CloseSystem(h, cs)>>

\* "self.close_communication(); raise Exception(msg)": the exception that
\* leaves the method; the raise statement is reached only when
\* close_communication returned
raise_after_close(msg, cs) ==
    IF close_communication(cs) # NoException THEN close_communication(cs)
    ELSE Exception(msg)

\* a method that takes the failure branch whatever the status
failed_always(status) == TRUE

\* "if status != 0:" of a method: the failure branch is taken
failed(status) == status # 0

\* a method that issues its command a second time when it was rejected
Method_retrying(o, op, args, cmd, msg, value) ==
    /\ phase[o] = "ready"
    /\ LET h == system_index[o]
       IN IF failed(cmd.status)
          THEN \E cs \in StatusesFor(h, 0) :
                 Finish(o, op, args, <<cmd, cmd>> \o recovery(h, cs),
                        raise_after_close(msg, cs), NoValue)
          ELSE Finish(o, op, args, <<cmd>>, NoException, value)
    /\ UNCHANGED <<phase, controller_locator, system_index>>

\* a method of object o that issues command cmd: with a non-zero status the
\* failure branch runs, otherwise the method returns value
Method(o, op, args, cmd, msg, value) ==
    /\ phase[o] = "ready"
    /\ LET h == system_index[o]
       IN IF failed(cmd.status)
          THEN \E cs \in StatusesFor(h, 0) :
                 Finish(o, op, args, <<cmd>> \o recovery(h, cs),
                        raise_after_close(msg, cs), NoValue)
          ELSE Finish(o, op, args, <<cmd>>, NoException, value)
    /\ UNCHANGED <<phase, controller_locator, system_index>>

\* get_number_of_channels, lines 89-110
GetNumberOfChannels(o) ==
    /\ phase[o] = "ready"
    /\ \E s \in StatusesFor(system_index[o], 0) :
         Method(o, "get_number_of_channels", <<>>,
                SA_GetNumberOfChannels(system_index[o], s, NumChannels),
                "SmarAct SA_GetNumberOfChannels failed", <<NumChannels>>)

\* get_position, lines 123-149
GetPosition(o, ch) ==
    /\ phase[o] = "ready"
    /\ \E s \in StatusesFor(system_index[o], ch) :
       \E p \in (IF s = 0 THEN Readings(ch) ELSE {0}) :
         Method(o, "get_position", <<ch>>,
                SA_GetPosition_S(system_index[o], ch, s, p),
                "SmarAct SA_GetPosition failed", <<p>>)

\* find_reference, lines 151-182
FindReference(o, ch) ==
    /\ phase[o] = "ready"
    /\ \E s \in StatusesFor(system_index[o], ch) :
         Method(o, "find_reference", <<ch>>,
                SA_FindReferenceMark_S(system_index[o], ch, s),
                "SmarAct SA_FindReferenceMark failed", NoValue)

\* relative_move, lines 184-208
RelativeMove(o, ch, relative_position) ==
    /\ phase[o] = "ready"
    /\ (ideal /\ ch \in Positioners) =>
          position[ch] + relative_position \in Travel
    /\ \E s \in StatusesFor(system_index[o], ch) :
         Method(o, "relative_move", <<ch, relative_position>>,
                SA_GotoPositionRelative_S(system_index[o], ch,
                                          relative_position, s),
                "SmarAct SA_GotoPositionRelative failed", NoValue)

\* absolute_move, lines 210-234
AbsoluteMove(o, ch, absolute_position) ==
    /\ phase[o] = "ready"
    /\ \E s \in StatusesFor(system_index[o], ch) :
         Method(o, "absolute_move", <<ch, absolute_position>>,
                SA_GotoPositionAbsolute_S(system_index[o], ch,
                                          absolute_position, s),
                "SmarAct SA_GotoPositionAbsolute failed", NoValue)

\* stop, lines 236-253
Stop(o, ch) ==
    /\ phase[o] = "ready"
    /\ \E s \in StatusesFor(system_index[o], ch) :
         Method(o, "stop", <<ch>>, SA_Stop_S(system_index[o], ch, s),
                "SmarAct SA_Stop failed", NoValue)

(* ------------------------------ the caller ----------------------------- *)
\* the caller takes the result of the call that ended (the value or the
\* exception) and is free to make its next call
TakeResult ==
    /\ call # NoCall
    /\ call' = NoCall
    /\ trace' = <<>>
    /\ raised' = NoException
    /\ ret' = NoValue
    /\ moved' = IF ideal /\ call.op = "relative_move" /\ raised = NoException
                THEN [channel |-> call.args[1],
                      sum |-> call.before[call.args[1]] + call.args[2]]
                ELSE NoMove
    /\ UNCHANGED <<phase, controller_locator, system_index, owner, closes,
                   ideal, position>>

(* --------------------------- specifications ---------------------------- *)
Init ==
    /\ phase = [o \in Objs |-> "unborn"]
    /\ controller_locator = [o \in Objs |-> NoLocator]
    /\ system_index = [o \in Objs |-> NoHandle]
    /\ owner = [h \in Handles |-> 0]
    /\ closes = [o \in Objs |-> "never"]
    /\ call = NoCall
    /\ trace = <<>>
    /\ raised = NoException
    /\ ret = NoValue
    /\ ideal = FALSE
    /\ position = [ch \in Positioners |-> 0]
    /\ moved = NoMove

New == \E o \in Objs, buf \in SampleOutputs : Construct(o, buf)
Close == \E o \in Objs : CloseCommunication(o)
Channels == \E o \in Objs : GetNumberOfChannels(o)
Position == \E o \in Objs, ch \in ChannelArgs : GetPosition(o, ch)
Reference == \E o \in Objs, ch \in ChannelArgs : FindReference(o, ch)
Relative ==
    \E o \in Objs, ch \in ChannelArgs, d \in Positions : RelativeMove(o, ch, d)
Absolute ==
    \E o \in Objs, ch \in ChannelArgs, p \in Positions : AbsoluteMove(o, ch, p)
Halt == \E o \in Objs, ch \in ChannelArgs : Stop(o, ch)

Next ==
    \/ New
    \/ Close
    \/ Channels
    \/ Position
    \/ Reference
    \/ Relative
    \/ Absolute
    \/ Halt
    \/ TakeResult

Spec == Init /\ [][Next]_vars

\* discovery alone: the first object is constructed with every enumeration
\* output of Buffers
Discover == \E buf \in Buffers : Construct(1, buf)
NextDiscovery == Discover \/ TakeResult
SpecDiscovery == Init /\ [][NextDiscovery]_vars

\* the idealized transport: the library carries out every motion command it
\* accepts; the positioners start anywhere in their travel
InitMotion ==
    /\ phase = [o \in Objs |-> "unborn"]
    /\ controller_locator = [o \in Objs |-> NoLocator]
    /\ system_index = [o \in Objs |-> NoHandle]
    /\ owner = [h \in Handles |-> 0]
    /\ closes = [o \in Objs |-> "never"]
    /\ call = NoCall
    /\ trace = <<>>
    /\ raised = NoException
    /\ ret = NoValue
    /\ ideal = TRUE
    /\ position \in [Positioners -> Travel]
    /\ moved = NoMove
\* one object and its session on the idealized transport
Connect == Construct(1, Loc1 \o <<" ">> \o Loc2)
NextMotion ==
    \/ Connect
    \/ CloseCommunication(1)
    \/ GetNumberOfChannels(1)
    \/ \E ch \in ChannelArgs : GetPosition(1, ch)
    \/ \E ch \in ChannelArgs : FindReference(1, ch)
    \/ \E ch \in ChannelArgs, d \in Positions : RelativeMove(1, ch, d)
    \/ \E ch \in ChannelArgs, p \in Positions : AbsoluteMove(1, ch, p)
    \/ \E ch \in ChannelArgs : Stop(1, ch)
    \/ TakeResult
SpecMotion == InitMotion /\ [][NextMotion]_vars

(* ------------------------------- claims -------------------------------- *)
\* a call has just ended
Ended == call # NoCall
\* the object of that call
Me == call.obj
\* the methods that use the open session and close it when they fail
SessionOps ==
    { "get_number_of_channels", "get_position", "find_reference",
      "relative_move", "absolute_move", "stop" }
\* a method that uses the session has ended and its command was rejected
CommandFailed ==
    /\ Ended
    /\ call.op \in SessionOps
    /\ trace[1].status # 0
\* the failure of a library function, as its caller is told
FailureOf(cmd) ==
    CASE cmd = "SA_FindSystems" -> "SmarAct SA_FindSystems error"
      [] cmd = "SA_OpenSystem" -> "SmarAct SA_OpenSystem failed"
      [] cmd = "SA_GetNumberOfChannels" -> "SmarAct SA_GetNumberOfChannels failed"
      [] cmd = "SA_CloseSystem" -> "SmarAct SA_CloseSystem failed"
      [] cmd = "SA_GetPosition_S" -> "SmarAct SA_GetPosition failed"
      [] cmd = "SA_FindReferenceMark_S" -> "SmarAct SA_FindReferenceMark failed"
      [] cmd = "SA_GotoPositionRelative_S" -> "SmarAct SA_GotoPositionRelative failed"
      [] cmd = "SA_GotoPositionAbsolute_S" -> "SmarAct SA_GotoPositionAbsolute failed"
      [] cmd = "SA_Stop_S" -> "SmarAct SA_Stop failed"
\* exception e reports the failure m: as its own message or as the message
\* of the exception chained to it
Reports(e, m) == e.msg = m \/ e.context = m
\* the command of the operation itself: the last one of __init__ (discovery,
\* then open), the first one of every other method
OwnCommand == IF call.op = "__init__" THEN trace[Len(trace)] ELSE trace[1]
\* SA_CloseSystem was issued for system index h in the call that ended
CloseIssuedFor(h) ==
    \E i \in DOMAIN trace :
        /\ trace[i].cmd = "SA_CloseSystem"
        /\ trace[i].args = <<h>>

C2_BothFailuresReported ==
    (CommandFailed /\ Len(trace) = 2 /\ trace[2].status # 0) =>
        /\ Reports(raised, FailureOf(trace[1].cmd))
        /\ Reports(raised, FailureOf("SA_CloseSystem"))

\* C3: whenever the command of an operation returns a non-zero status c, an
\* exception reaches the caller that carries c and names the operation.
C3_CodeAndOperationCarried ==
    (Ended /\ OwnCommand.status # 0) =>
        /\ raised # NoException
        /\ OwnCommand.status \in raised.codes
        /\ Reports(raised, FailureOf(OwnCommand.cmd))

\* C4, as stated: SA_CloseSystem is issued at most once for the session of
\* an object, over any sequence of calls.
C4_CloseAtMostOnce == \A o \in Objs : closes[o] # "again"

\* C4, amended: a call issues SA_CloseSystem at most once, and it is issued
\* a second time for a session only by a call the caller makes after it was
\* issued a first time (the object keeps no closed state).
C4_CloseOncePerCall ==
    Ended =>
        /\ CloseCount(trace) <= 1
        /\ (closes[Me] = "again" => call.late)

C4_Witness ==
    /\ Ended
    /\ call.late
    /\ call.op = "get_position"
    /\ CloseCount(trace) = 1
    /\ closes[Me] = "again"

\* C5, as stated: at most one session is open at any time.
C5_AtMostOneSession == Cardinality(live) <= 1

\* C5, amended: every open session is held by the object that opened it, as
\* its system_index, so there are at most as many open sessions as objects;
\* a second object may open a second session while the first is open.
C5_SessionsAreHeld ==
    /\ \A h \in live :
          /\ phase[owner[h]] = "ready"
          /\ system_index[owner[h]] = h
    /\ Cardinality(live) <= Cardinality({o \in Objs : phase[o] = "ready"})

C5_Witness ==
    /\ Cardinality(live) = 2
    /\ SessionOpen(1)
    /\ SessionOpen(2)

\* C6: a call in which a library function returned a non-zero status ends
\* with an exception and returns no value; when it is the construction, no
\* object comes to exist.
C6_NoSuccessOnFailure ==
    (Ended /\ \E i \in DOMAIN trace : trace[i].status # 0) =>
        /\ raised # NoException
        /\ ret = NoValue
        /\ (call.op = "__init__" => phase[Me] = "failed")

C6_Witness ==
    /\ Ended
    /\ call.op = "close_communication"
    /\ trace[1].status # 0
    /\ raised = Exception("SmarAct SA_CloseSystem failed")

\* C7: an accepted SA_OpenSystem yields an object whose session is open and
\* whose system_index is the value the library returned; a rejected one
\* yields the SA_OpenSystem failure, no object, no open session and no
\* SA_CloseSystem.
C7_OpenSession ==
    (Ended /\ call.op = "__init__" /\ Len(trace) = 2) =>
        /\ trace[2].cmd = "SA_OpenSystem"
        /\ IF trace[2].status = 0
           THEN /\ raised = NoException
                /\ phase[Me] = "ready"
                /\ system_index[Me] = trace[2].out[1]
                /\ SessionOpen(Me)
           ELSE /\ raised = Exception(FailureOf("SA_OpenSystem"))
                /\ phase[Me] = "failed"
                /\ CloseCount(trace) = 0
                /\ \A h \in Handles : owner[h] # Me

C7_Witness ==
    /\ Ended
    /\ call.op = "__init__"
    /\ Me = 2
    /\ Len(trace) = 2
    /\ trace[2].status # 0
    /\ SessionOpen(1)
    /\ system_index[1] = 1

\* the characters of buf from index i on are the tag and ten digits
LocatorAt(buf, i) ==
    /\ i + 16 <= Len(buf)
    /\ SubSeq(buf, i, i + 6) = <<"u", "s", "b", ":", "i", "d", ":">>
    /\ \A k \in (i + 7)..(i + 16) :
          buf[k] \in {"0", "1", "2", "3", "4", "5", "6", "7", "8", "9"}
\* a construction has ended whose enumeration was accepted
Enumerated ==
    /\ Ended
    /\ call.op = "__init__"
    /\ trace[1].status = 0
\* the enumeration output of that construction
OutList == trace[1].out[1]

\* C8: when no substring of the enumeration output is a locator, the
\* construction fails with "No controller found" and SA_OpenSystem is not
\* called.
C8_NoControllerFound ==
    (Enumerated /\ \A i \in 1..Len(OutList) : ~LocatorAt(OutList, i)) =>
        /\ raised = Exception("No controller found")
        /\ Len(trace) = 1
        /\ phase[Me] = "failed"

C8_Witness ==
    /\ Enumerated
    /\ OutList = Tag \o Nine \o <<"x">>
    /\ raised = Exception("No controller found")

\* C9: when substrings of the enumeration output are locators, the locator
\* found is the leftmost of them, unchanged: it is what SA_OpenSystem is
\* called with and what the object keeps.
C9_FirstMatch ==
    (Enumerated /\ \E i \in 1..Len(OutList) : LocatorAt(OutList, i)) =>
        LET first == CHOOSE i \in 1..Len(OutList) :
                        /\ LocatorAt(OutList, i)
                        /\ \A j \in 1..(i - 1) : ~LocatorAt(OutList, j)
            locator == SubSeq(OutList, first, first + 16)
        IN  /\ Len(trace) = 2
            /\ trace[2].cmd = "SA_OpenSystem"
            /\ trace[2].args[1] = locator
            /\ (phase[Me] = "ready" => controller_locator[Me] = locator)

C9_Witness ==
    /\ Enumerated
    /\ OutList = Loc1 \o <<" ">> \o Loc2
    /\ phase[Me] = "ready"
    /\ controller_locator[Me] = Loc1

\* C10: when SA_FindSystems returns a non-zero status, the construction
\* fails with the SA_FindSystems failure, and neither SA_OpenSystem nor
\* SA_CloseSystem is called: no session is opened.
C10_DiscoveryError ==
    (Ended /\ call.op = "__init__" /\ trace[1].status # 0) =>
        /\ raised = Exception(FailureOf("SA_FindSystems"))
        /\ Len(trace) = 1
        /\ trace[1].cmd = "SA_FindSystems"
        /\ phase[Me] = "failed"
        /\ \A h \in Handles : owner[h] # Me

C10_Witness ==
    /\ Ended
    /\ call.op = "__init__"
    /\ trace[1].status # 0
    /\ OutList = Loc1 \o <<" ">> \o Loc2
    /\ raised = Exception("SmarAct SA_FindSystems error")

\* a method of the session has ended and returned: its command was accepted
Returned(op) ==
    /\ Ended
    /\ call.op = op
    /\ raised = NoException

\* C11: on the idealized transport, for a channel the controller has: when
\* get_position(ch) returns and the caller's previous call was a
\* relative_move(ch, d) that returned, it returns the position before the
\* move plus d, sign included; and a relative_move that returned has changed
\* the position of no other channel.
C11_PositionAfterRelativeMove ==
    /\ (Returned("get_position") /\ moved.channel = call.args[1]) =>
          ret = <<moved.sum>>
    /\ Returned("relative_move") =>
          \A other \in Positioners \ {call.args[1]} :
              position[other] = call.before[other]

C11_Witness ==
    /\ Returned("get_position")
    /\ call.args = <<0>>
    /\ moved = [channel |-> 0, sum |-> 0 - 1]
    /\ ret = <<0 - 1>>
    /\ position[1] = 1

\* C12: every SA_FindReferenceMark_S command issued carries direction 0
\* (forward), hold time 60000 and auto zero 1, whatever the channel index
\* the caller passed and whatever was called before; the channel index is
\* the only argument taken from the caller.
C12_ReferenceParameters ==
    Ended =>
        \A i \in DOMAIN trace :
            trace[i].cmd = "SA_FindReferenceMark_S" =>
                /\ Len(trace[i].args) = 5
                /\ trace[i].args[2] = call.args[1]
                /\ trace[i].args[3] = 0
                /\ trace[i].args[4] = 60000
                /\ trace[i].args[5] = 1

C12_Witness ==
    /\ Returned("find_reference")
    /\ Me = 2
    /\ call.args = <<1>>
    /\ call.late
    /\ trace = <<SA_FindReferenceMark_S(system_index[2], 1, 0)>>
    /\ trace[1].args[3] = 0

\* the kinds of failure and the failures they stand for
KindOf(e) ==
    CASE e.msg \in { "SmarAct SA_GetNumberOfChannels failed",
                     "SmarAct SA_GetPosition failed" } -> "CommunicationError"
      [] e.msg \in { "SmarAct SA_GotoPositionRelative failed",
                     "SmarAct SA_GotoPositionAbsolute failed",
                     "SmarAct SA_Stop failed" } -> "MotionError"
      [] e.msg = "SmarAct SA_FindReferenceMark failed" -> "ReferenceError"
      [] e.msg = "SmarAct SA_CloseSystem failed" -> "SessionCloseError"
      [] e.msg = "SmarAct SA_OpenSystem failed" -> "SessionOpenError"
      [] OTHER -> "other"
\* the kind of failure of each operation
Taxonomy(op) ==
    CASE op \in {"get_number_of_channels", "get_position"} -> "CommunicationError"
      [] op \in {"relative_move", "absolute_move", "stop"} -> "MotionError"
      [] op = "find_reference" -> "ReferenceError"
      [] op = "close_communication" -> "SessionCloseError"
      [] op = "__init__" -> "SessionOpenError"

\* C13: when the command of an operation is rejected (for the construction:
\* SA_OpenSystem), the failure that reaches the caller is of the kind of the
\* operation: CommunicationError for get_number_of_channels and
\* get_position, MotionError for relative_move, absolute_move and stop,
\* ReferenceError for find_reference, SessionCloseError for
\* close_communication, SessionOpenError for the open.
C13_KindByOperation ==
    (Ended /\ OwnCommand.status # 0 /\ OwnCommand.cmd # "SA_FindSystems") =>
        KindOf(raised) = Taxonomy(call.op)

\* C14: SA_FindReferenceMark_S is issued by find_reference only.  On the
\* idealized transport no other method makes the position of a channel
\* zero in its place: absolute_move that returned has put its channel at the
\* target the caller passed and left the other channels alone, and the
\* methods that are neither moves nor find_reference leave every position as
\* it was.
C14_OnlyFindReferenceReferences ==
    (Ended /\ call.op # "find_reference") =>
        /\ \A i \in DOMAIN trace : trace[i].cmd # "SA_FindReferenceMark_S"
        /\ (ideal /\ Returned("absolute_move")) =>
              position = [call.before EXCEPT ![call.args[1]] = call.args[2]]
        /\ (ideal /\ call.op \notin {"absolute_move", "relative_move"}) =>
              position = call.before

C14_Witness ==
    /\ Returned("absolute_move")
    /\ ideal
    /\ call.args = <<1, 1>>
    /\ call.before = [ch \in Positioners |-> 0 - 1]
    /\ position[1] = 1
    /\ position[0] = 0 - 1
    /\ trace[1].cmd = "SA_GotoPositionAbsolute_S"

\* the library function that is the command of a method
PrimaryOf(op) ==
    CASE op = "close_communication" -> "SA_CloseSystem"
      [] op = "get_number_of_channels" -> "SA_GetNumberOfChannels"
      [] op = "get_position" -> "SA_GetPosition_S"
      [] op = "find_reference" -> "SA_FindReferenceMark_S"
      [] op = "relative_move" -> "SA_GotoPositionRelative_S"
      [] op = "absolute_move" -> "SA_GotoPositionAbsolute_S"
      [] op = "stop" -> "SA_Stop_S"
\* how often library function name was called in the call that ended
Issued(name) == Cardinality({i \in DOMAIN trace : trace[i].cmd = name})

\* C15: no method retries.  A call of a method issues the command of the
\* method exactly once, accepted or rejected, as the first command of the
\* call and with the arguments of that call; whatever else it issues is the
\* SA_CloseSystem of its failure branch.  A construction issues
\* SA_FindSystems once and SA_OpenSystem at most once.  The commands of a
\* call are all issued before the call ends, so commands follow the order
\* of the calls.
C15_NoRetry ==
    /\ (Ended /\ call.op # "__init__") =>
          /\ trace[1].cmd = PrimaryOf(call.op)
          /\ trace[1].args[1] = system_index[Me]
          /\ SubSeq(trace[1].args, 2, Len(call.args) + 1) = call.args
          /\ \A i \in 2..Len(trace) : trace[i].cmd = "SA_CloseSystem"
          /\ Issued(PrimaryOf(call.op)) = 1
    /\ (Ended /\ call.op = "__init__") =>
          /\ Issued("SA_FindSystems") = 1
          /\ Issued("SA_OpenSystem") <= 1
          /\ Issued("SA_FindSystems") + Issued("SA_OpenSystem") = Len(trace)

C15_Witness ==
    /\ CommandFailed
    /\ call.op = "relative_move"
    /\ call.args = <<0, 1>>
    /\ Issued("SA_GotoPositionRelative_S") = 1
    /\ Len(trace) = 2
    /\ trace[2].status = 0

\* C16: every move command issued by relative_move or absolute_move carries
\* the system index of the object, the channel index and the signed
\* displacement or target the caller passed, unchanged, and the hold time
\* 60000, whatever the arguments and whatever was called before.
C16_MoveCarriesArguments ==
    (Ended /\ call.op \in {"relative_move", "absolute_move"}) =>
        /\ trace[1].cmd = (IF call.op = "relative_move"
                           THEN "SA_GotoPositionRelative_S"
                           ELSE "SA_GotoPositionAbsolute_S")
        /\ trace[1].args =
              <<system_index[Me], call.args[1], call.args[2], 60000>>
        /\ \A i \in 2..Len(trace) :
              trace[i].cmd \notin {"SA_GotoPositionRelative_S",
                                   "SA_GotoPositionAbsolute_S"}

C16_Witness ==
    /\ Returned("absolute_move")
    /\ Me = 2
    /\ call.late
    /\ call.args = <<1, 0 - 1>>
    /\ trace[1].args = <<system_index[2], 1, 0 - 1, 60000>>

\* C17: a construction issues SA_FindSystems first; it issues SA_OpenSystem
\* only after an accepted SA_FindSystems, once, and with exactly the locator
\* found in the enumeration output; it issues nothing else.  The object
\* exists only when SA_OpenSystem was accepted, and the methods that issue
\* channel commands are called on objects that exist: no channel command is
\* issued before the open has succeeded.
C17_DiscoveryThenOpen ==
    /\ (Ended /\ call.op = "__init__") =>
          /\ trace[1].cmd = "SA_FindSystems"
          /\ Len(trace) <= 2
          /\ Len(trace) = 2 =>
                /\ trace[1].status = 0
                /\ trace[2].cmd = "SA_OpenSystem"
                /\ Len(trace[2].args[1]) = 17
                /\ \E i \in 1..Len(OutList) :
                      /\ LocatorAt(OutList, i)
                      /\ \A j \in 1..(i - 1) : ~LocatorAt(OutList, j)
                      /\ trace[2].args[1] = SubSeq(OutList, i, i + 16)
          /\ phase[Me] = "ready" <=>
                (Len(trace) = 2 /\ trace[2].status = 0)
    /\ (Ended /\ call.op # "__init__") =>
          /\ phase[Me] = "ready"
          /\ system_index[Me] \in Handles

C17_Witness ==
    /\ Ended
    /\ call.op = "__init__"
    /\ Me = 2
    /\ Len(trace) = 2
    /\ trace[1].cmd = "SA_FindSystems"
    /\ trace[2].args = <<Loc1, "sync">>
    /\ trace[2].status = 0
    /\ phase[2] = "ready"

\* C18: a method of the session whose command returned status zero issues
\* no SA_CloseSystem and raises nothing: a session that was open when the
\* call began is open when it ends, and when SA_CloseSystem had never been
\* issued for the session before the call it has still never been issued.
C18_SuccessLeavesSessionOpen ==
    (Ended /\ call.op \in SessionOps /\ trace[1].status = 0) =>
        /\ raised = NoException
        /\ Len(trace) = 1
        /\ CloseCount(trace) = 0
        /\ (call.open => SessionOpen(Me))
        /\ (~call.late => closes[Me] = "never")

C18_Witness ==
    /\ Ended
    /\ call.op = "stop"
    /\ call.args = <<1>>
    /\ trace[1].status = 0
    /\ call.open
    /\ ~call.late
    /\ SessionOpen(Me)
    /\ closes[Me] = "never"

\* C19: when the command of a method of the session is rejected, the call
\* issues SA_CloseSystem exactly once, as its last command, after the
\* rejected command, and ends with an exception; when that SA_CloseSystem is
\* rejected too nothing follows it.  A close_communication whose
\* SA_CloseSystem is rejected issues no second one.
C19_OneRecoveryClose ==
    /\ CommandFailed =>
          /\ raised # NoException
          /\ trace[1].cmd # "SA_CloseSystem"
          /\ CloseCount(trace) = 1
          /\ trace[Len(trace)].cmd = "SA_CloseSystem"
          /\ trace[Len(trace)].status # 0 => Len(trace) = 2
    /\ (Ended /\ call.op = "close_communication" /\ trace[1].status # 0) =>
          /\ Len(trace) = 1
          /\ raised # NoException

C19_Witness ==
    /\ CommandFailed
    /\ call.op = "find_reference"
    /\ Len(trace) = 2
    /\ trace[2].cmd = "SA_CloseSystem"
    /\ trace[2].status # 0
    /\ raised = Exception("SmarAct SA_CloseSystem failed")

\* C20: the locator and the system index of an object are set by its
\* construction, to the locator passed to SA_OpenSystem and the system index
\* that SA_OpenSystem returned; no later step changes them or unmakes the
\* object, whether a method returns or raises, close_communication
\* included; and every command a method issues carries that system index.
C20_LocatorAndHandleKept ==
    /\ [][\A o \in Objs :
            phase[o] = "ready" =>
                /\ phase'[o] = "ready"
                /\ system_index'[o] = system_index[o]
                /\ controller_locator'[o] = controller_locator[o]]_vars
    /\ [](\A o \in Objs :
            phase[o] # "ready" =>
                /\ system_index[o] = NoHandle
                /\ controller_locator[o] = NoLocator)
    /\ []((Ended /\ call.op = "__init__" /\ phase[Me] = "ready") =>
            /\ controller_locator[Me] = trace[2].args[1]
            /\ system_index[Me] = trace[2].out[1])
    /\ []((Ended /\ call.op # "__init__") =>
            \A i \in DOMAIN trace : trace[i].args[1] = system_index[Me])

C20_Witness ==
    /\ Ended
    /\ call.op = "close_communication"
    /\ Me = 2
    /\ call.late
    /\ trace[1].args = <<1>>
    /\ system_index[2] = 1
    /\ controller_locator[2] = Loc1

====
